---------------------------- MODULE Spec2Model ----------------------------
(***************************************************************************)
(* Model of the recipe-photo upload gateway.                               *)
(*                                                                         *)
(* Two deployments exist: the Google Drive program (src/server.js) and the *)
(* Cloudinary program (src/unnamed/part_000).  `variant` selects which of  *)
(* the two programs a behaviour runs.                                      *)
(*                                                                         *)
(* Node runs a handler to completion between two awaits, so one action is  *)
(* one such segment: the backend answers the call the request is waiting   *)
(* on, and the handler continues up to the next await or to its response.  *)
(* pc[r] names the backend call request r is suspended on.                 *)
(*                                                                         *)
(* Strings are sequences of fragments, so that `includes` and template     *)
(* literals are computed rather than assumed.                              *)
(***************************************************************************)
EXTENDS Integers, Sequences, FiniteSets, TLC

\* Number of HTTP requests a behaviour serves.
NumRequests == 2
\* Largest value Date.now() takes.
MaxClock == 1

Requests == 1..NumRequests

NULL == <<>>
OK == <<"ok">>

PARENT_FOLDER_NAME == "sturgeon spirits all"
SUBFOLDER_NAME == "Sturgeon Recipes Photos"
CLOUD_FOLDER == "sturgeon-recipes"
FOLDER_MIME == "application/vnd.google-apps.folder"
\* req.file.mimetype
PHOTO_MIME == "image/jpeg"

VARIABLES
  variant,          \* "drive" (server.js) or "cloudinary" (part_000)
  PHOTOS_FOLDER_ID, \* process.env.PHOTOS_FOLDER_ID || null
  folders,          \* Drive: the folders the backend holds (records)
  files,            \* Drive: fileId -> [parent, owner] of the stored files
  perms,            \* Drive: ids carrying the anyone/reader permission
  nextId,           \* Drive: how many ids the backend has issued
  assets,           \* Cloudinary: public id -> owner of the stored assets
  clock,            \* Date.now()
  pc,               \* per request: idle, the pending backend call, or done
  kind,             \* per request: "upload" or "delete"
  reqFile,          \* per request: req.file is present
  staged,           \* per request: the staged file exists in uploads/
  fileIdParam,      \* per request: req.params.fileId
  loc,              \* per request: the handler's local variables
  trace,            \* per request: the calls it made, in order
  resp              \* per request: the responses it sent, in order

backend == <<folders, files, perms, nextId, assets>>
config == <<variant, PHOTOS_FOLDER_ID>>
request == <<pc, kind, reqFile, staged, fileIdParam, loc, trace, resp>>
vars == <<variant, PHOTOS_FOLDER_ID, folders, files, perms, nextId, assets,
          clock, pc, kind, reqFile, staged, fileIdParam, loc, trace, resp>>

-----------------------------------------------------------------------------
(* Strings *)

\* String.prototype.includes at fragment granularity.
Includes(msg, fragment) == \E i \in DOMAIN msg : msg[i] = fragment

\* What a backend call may reject with for reasons outside the request.
\* getOrCreateFolder reads the message of what it catches, so its calls
\* are given each message it tells apart; every other handler passes the
\* message on unread, so there one message stands for all.
Faults == { <<"socket hang up">> }
FolderFaults == Faults \cup { <<"insufficient permissions">>, <<"storage quota">> }
Outcomes == {OK} \cup Faults
FolderOutcomes == {OK} \cup FolderFaults

NotFound(id) == <<"File not found: ">> \o id

\* Ids the Drive backend issues; folders and files are told apart by tag.
DriveId(tag, n) == <<tag, n>>

-----------------------------------------------------------------------------
(* The Drive backend, as the calls of server.js see it *)

\* The folder the deployment is configured with, when it is.
ConfiguredFolderId == DriveId("folder", 0)

Folder(id, name, parents, cap, trashed) ==
  [id |-> id, name |-> name, parents |-> parents,
   canAddChildren |-> cap, trashed |-> trashed]

\* capabilities.canAddChildren as the API reports it; "undefined" when the
\* capabilities object is missing from the answer.
Capabilities == {"true", "false", "undefined"}

\* The q of drive.files.list: name, parent (when given), folder mime type
\* (every member of `folders` has it), not trashed.
Query(folderName, parentId, f) ==
  /\ f.name = folderName
  /\ parentId # NULL => Includes(f.parents, parentId)
  /\ f.trashed = FALSE

\* The capability is read but never found to deny.
WriteDenied_never(cap) == FALSE

\* folder.capabilities && folder.capabilities.canAddChildren === false
WriteDenied(cap) == cap = "false"

\* The URL built on the viewer pattern instead of the direct-content one.
ImageUrl_view(fileId) == <<"https://drive.google.com/file/d/">> \o fileId \o <<"/view">>

\* const imageUrl = `https://drive.google.com/uc?id=${file.data.id}`
ImageUrl(fileId) == <<"https://drive.google.com/uc?id=">> \o fileId

\* The Error thrown when the found folder refuses children.
CannotWriteFolder(folderName) ==
  <<"Service account cannot write to folder ", folderName,
    ". Check folder permissions - service account needs ", "Editor", " access.">>

\* The Error thrown when the configured folder refuses children.
CannotWriteThisFolder ==
  <<"Service account cannot write to this folder. Make sure folder is shared with service account as ",
    "Editor", ".">>

\* The inner catch of the upload handler: every failure of the folder
\* check is rethrown under one message.
CannotAccessFolder(msg) ==
  <<"Cannot access folder. Make sure folder is shared with service account (",
    "credentials.client_email", ") as ", "Editor", ". Error: ">> \o msg

\* The catch of getOrCreateFolder: two messages are rewritten, every other
\* error is rethrown as it is.
FolderError(msg, folderName) ==
  IF Includes(msg, "insufficient permissions")
  THEN <<"Permission denied: Service account cannot access or create folder ",
         folderName,
         ". Make sure the folder is shared with the service account as ",
         "Editor", ".">>
  ELSE IF Includes(msg, "storage quota")
  THEN <<"Storage quota error: Service accounts don't have their own storage. Share the ",
         folderName, " folder with the service account as ", "Editor", ".">>
  ELSE msg

-----------------------------------------------------------------------------
(* The Cloudinary backend, as the calls of part_000 see it *)

\* public_id: `recipe-${Date.now()}`
GeneratedName(now) == <<"recipe-", now>>

\* The public id of the asset an upload with these options addresses.
AssetId(folder, publicId) == <<folder, "/">> \o publicId

\* The id an upload made at time t is stored under.
PublicId(t) == AssetId(CLOUD_FOLDER, GeneratedName(t))

SecureUrl(id) == <<"https://res.cloudinary.com/image/upload/">> \o id

-----------------------------------------------------------------------------
(* Requests *)

\* One call as the request made it: what was called, on what, whether it
\* resolved, and the id in its result.
Ev(op, arg, ok, result) == [op |-> op, arg |-> arg, ok |-> ok, result |-> result]

\* res.status(s).json({success: false, error})
Failure(status, msg) ==
  [status |-> status, success |-> FALSE, error |-> msg,
   url |-> NULL, fileId |-> NULL]

\* res.json({success: true, url, fileId})
Success(url, fileId) ==
  [status |-> 200, success |-> TRUE, error |-> NULL,
   url |-> url, fileId |-> fileId]

NoLocals ==
  [folderName |-> "", parentId |-> NULL, folderId |-> NULL,
   parentFolderId |-> NULL, photosFolderId |-> NULL,
   fileId |-> NULL, publicId |-> NULL]

\* unlinkSync left out: the staged file stays.
unlinkSync_skipped(st, r) == st

\* fs.unlinkSync(req.file.path), when the file is there.
unlinkSync(st, r) == [st EXCEPT ![r] = FALSE]

\* The check for a missing file never fires.
NoFileUploaded_never(hasFile) == FALSE

\* if (!req.file)
NoFileUploaded(hasFile) == ~hasFile

\* The configured id is ignored and the folder is always searched.
UseHardcodedFolder_never == FALSE

\* if (PHOTOS_FOLDER_ID)
UseHardcodedFolder == PHOTOS_FOLDER_ID # NULL

\* The event of the handler sending its answer.
Responded(status) == Ev("res.json", <<status>>, TRUE, NULL)

\* The request moves to its next await.
Suspend(r, evs, nextPc, locals) ==
  /\ pc' = [pc EXCEPT ![r] = nextPc]
  /\ loc' = [loc EXCEPT ![r] = locals]
  /\ trace' = [trace EXCEPT ![r] = @ \o evs]
  /\ UNCHANGED <<staged, resp>>

\* A catch that leaves the request where it was, so that the call that
\* failed is made again.
CatchUpload_retry(r, evs, msg) ==
  /\ trace' = [trace EXCEPT ![r] = @ \o evs]
  /\ UNCHANGED <<pc, loc, staged, resp>>

\* The catch of the upload handler: remove the staged file, ignoring a
\* failure to do so, and answer 500 with the error's message.
CatchUpload(r, evs, msg) ==
  /\ staged' = IF reqFile[r] /\ staged[r] THEN unlinkSync(staged, r) ELSE staged
  /\ trace' = [trace EXCEPT ![r] =
                 @ \o evs \o <<Ev("fs.unlinkSync", <<r>>, staged[r], NULL),
                               Responded(500)>>]
  /\ resp' = [resp EXCEPT ![r] = Append(@, Failure(500, msg))]
  /\ pc' = [pc EXCEPT ![r] = "done"]
  /\ UNCHANGED loc

\* The tail of the upload handler's try block: remove the staged file and
\* answer 200; unlinkSync throws when the file is not there.
FinishUpload(r, evs, url, fileId) ==
  IF staged[r]
  THEN /\ staged' = unlinkSync(staged, r)
       /\ trace' = [trace EXCEPT ![r] =
                      @ \o evs \o <<Ev("fs.unlinkSync", <<r>>, TRUE, NULL),
                                    Responded(200)>>]
       /\ resp' = [resp EXCEPT ![r] = Append(@, Success(url, fileId))]
       /\ pc' = [pc EXCEPT ![r] = "done"]
       /\ UNCHANGED loc
  ELSE CatchUpload(r, evs, <<"ENOENT: no such file or directory">>)

\* The catch of a delete handler: answer 500 with the error's message.
CatchDelete(r, evs, msg) ==
  /\ trace' = [trace EXCEPT ![r] = @ \o evs \o <<Responded(500)>>]
  /\ resp' = [resp EXCEPT ![r] = Append(@, Failure(500, msg))]
  /\ pc' = [pc EXCEPT ![r] = "done"]
  /\ UNCHANGED <<staged, loc>>

\* res.json({ success: true }) of a delete handler.
FinishDelete(r, evs) ==
  /\ trace' = [trace EXCEPT ![r] = @ \o evs \o <<Responded(200)>>]
  /\ resp' = [resp EXCEPT ![r] = Append(@, Success(NULL, NULL))]
  /\ pc' = [pc EXCEPT ![r] = "done"]
  /\ UNCHANGED <<staged, loc>>

\* getOrCreateFolder returns id to the upload handler: the first call's
\* result is the parent of the second, the second's is the photos folder.
FolderResolved(r, evs, id) ==
  IF loc[r].folderName = PARENT_FOLDER_NAME
  THEN Suspend(r, evs, "folder.list",
               [loc[r] EXCEPT !.parentFolderId = id,
                              !.folderName = SUBFOLDER_NAME,
                              !.parentId = id,
                              !.folderId = NULL])
  ELSE Suspend(r, evs, "file.create", [loc[r] EXCEPT !.photosFolderId = id])

-----------------------------------------------------------------------------
(* Initial states *)

Preexisting(n, name, parents, cap, trashed) ==
  Folder(DriveId("folder", n), name, parents, cap, trashed)

\* What Drive may hold when no folder id is configured: no folder, the
\* parent alone, or the parent with a photos folder below it.
SearchedFolderSets ==
  LET parent(cap) == Preexisting(1, PARENT_FOLDER_NAME, <<>>, cap, FALSE)
      child(cap, trashed) ==
        Preexisting(2, SUBFOLDER_NAME, <<DriveId("folder", 1)>>, cap, trashed)
  IN  {{}}
      \cup {{parent(c)} : c \in {"true", "false"}}
      \cup {{parent("true"), child(c, FALSE)} : c \in {"true", "false"}}
      \cup {{parent("true"), child("true", TRUE)}}

\* What Drive may hold under the configured id: a folder of any
\* capability, or nothing (a wrong id).
ConfiguredFolderSets ==
  {{}} \cup {{Folder(ConfiguredFolderId, SUBFOLDER_NAME, <<>>, c, FALSE)} :
               c \in Capabilities}

Init ==
  /\ variant \in {"drive", "cloudinary"}
  /\ PHOTOS_FOLDER_ID \in
       IF variant = "drive" THEN {NULL, ConfiguredFolderId} ELSE {NULL}
  /\ folders \in
       IF variant = "cloudinary" THEN {{}}
       ELSE IF PHOTOS_FOLDER_ID = NULL THEN SearchedFolderSets
       ELSE ConfiguredFolderSets
  /\ files = {}
  /\ perms = {}
  /\ nextId = [folder |-> 2, file |-> 0]
  /\ assets = {}
  /\ clock = 0
  /\ pc = [r \in Requests |-> "idle"]
  /\ kind = [r \in Requests |-> "none"]
  /\ reqFile = [r \in Requests |-> FALSE]
  /\ staged = [r \in Requests |-> FALSE]
  /\ fileIdParam = [r \in Requests |-> NULL]
  /\ loc = [r \in Requests |-> NoLocals]
  /\ trace = [r \in Requests |-> <<>>]
  /\ resp = [r \in Requests |-> <<>>]

\* The fileId a DELETE may name: every id an upload can have been given,
\* and ids no upload was given.  The ids of Drive folders are left out.
FileIds ==
  IF variant = "drive"
  THEN {DriveId("file", n) : n \in 1..NumRequests}
  ELSE {PublicId(t) : t \in 0..MaxClock}

-----------------------------------------------------------------------------
(* POST /api/upload-photo arrives: the handler runs to its first await *)

UploadPhoto(r) ==
  /\ pc[r] = "idle"
  /\ \E hasFile \in BOOLEAN :
       /\ kind' = [kind EXCEPT ![r] = "upload"]
       /\ reqFile' = [reqFile EXCEPT ![r] = hasFile]
       /\ IF NoFileUploaded(hasFile)
          THEN /\ pc' = [pc EXCEPT ![r] = "done"]
               /\ resp' = [resp EXCEPT ![r] =
                             Append(@, Failure(400, <<"No file uploaded">>))]
               /\ trace' = [trace EXCEPT ![r] = Append(@, Responded(400))]
               /\ staged' = [staged EXCEPT ![r] = hasFile]
               /\ UNCHANGED loc
          ELSE /\ staged' = [staged EXCEPT ![r] = hasFile]
               /\ resp' = resp
               /\ trace' = trace
               /\ IF variant = "cloudinary"
                  THEN /\ pc' = [pc EXCEPT ![r] = "upload"]
                       /\ loc' = [loc EXCEPT ![r].publicId = GeneratedName(clock)]
                  ELSE IF UseHardcodedFolder
                  THEN /\ pc' = [pc EXCEPT ![r] = "folder.get"]
                       /\ loc' = [loc EXCEPT ![r].photosFolderId = PHOTOS_FOLDER_ID]
                  ELSE /\ pc' = [pc EXCEPT ![r] = "folder.list"]
                       /\ loc' = [loc EXCEPT ![r].folderName = PARENT_FOLDER_NAME]
  /\ UNCHANGED <<config, backend, clock, fileIdParam>>

(* DELETE /api/delete-photo/:fileId arrives *)
DeletePhoto(r) ==
  /\ pc[r] = "idle"
  /\ \E id \in FileIds :
       /\ kind' = [kind EXCEPT ![r] = "delete"]
       /\ fileIdParam' = [fileIdParam EXCEPT ![r] = id]
       /\ pc' = [pc EXCEPT ![r] =
                   IF variant = "drive" THEN "file.delete" ELSE "destroy"]
  /\ UNCHANGED <<config, backend, clock, reqFile, staged, loc, trace, resp>>

\* Time passes.  Only the Cloudinary program reads the clock in a handler
\* that is modelled, so only there is its value part of the state.
Tick ==
  /\ variant = "cloudinary"
  /\ clock < MaxClock
  /\ clock' = clock + 1
  /\ UNCHANGED <<config, backend, request>>

-----------------------------------------------------------------------------
(* Drive: the configured folder is checked (drive.files.get) *)

FolderCheck(r) ==
  /\ pc[r] = "folder.get"
  /\ \E out \in Outcomes :
       LET hit == {f \in folders : f.id = PHOTOS_FOLDER_ID}
           err == IF out # OK THEN out
                  ELSE IF hit = {} THEN NotFound(PHOTOS_FOLDER_ID)
                  ELSE OK
           ev == <<Ev("files.get", PHOTOS_FOLDER_ID, err = OK, NULL)>>
       IN  IF err # OK
           THEN CatchUpload(r, ev, CannotAccessFolder(err))
           ELSE \E f \in hit :
                  IF WriteDenied(f.canAddChildren)
                  THEN CatchUpload(r, ev, CannotAccessFolder(CannotWriteThisFolder))
                  ELSE Suspend(r, ev, "file.create", loc[r])
  /\ UNCHANGED <<config, backend, clock, kind, reqFile, fileIdParam>>

(* Drive: getOrCreateFolder searches the folder (drive.files.list) *)
ListFolder(r) ==
  /\ pc[r] = "folder.list"
  /\ \E out \in FolderOutcomes :
       LET name == loc[r].folderName
           found == {f \in folders : Query(name, loc[r].parentId, f)}
           ev == <<Ev("files.list", <<name>> \o loc[r].parentId, out = OK, NULL)>>
       IN  IF out # OK
           THEN CatchUpload(r, ev, FolderError(out, name))
           ELSE IF found # {}
           THEN \E f \in found :  \* response.data.files[0]
                  IF WriteDenied(f.canAddChildren)
                  THEN CatchUpload(r, ev, FolderError(CannotWriteFolder(name), name))
                  ELSE FolderResolved(r, ev, f.id)
           ELSE Suspend(r, ev, "folder.create", loc[r])
  /\ UNCHANGED <<config, backend, clock, kind, reqFile, fileIdParam>>

(* Drive: getOrCreateFolder creates the folder (drive.files.create) *)
CreateFolder(r) ==
  /\ pc[r] = "folder.create"
  /\ \E out \in FolderOutcomes :
       LET name == loc[r].folderName
           id == DriveId("folder", nextId.folder + 1)
           parents == IF loc[r].parentId # NULL THEN <<loc[r].parentId>> ELSE <<>>
           ev == <<Ev("files.create", <<FOLDER_MIME, name>> \o loc[r].parentId,
                      out = OK, IF out = OK THEN id ELSE NULL)>>
       IN  IF out # OK
           THEN /\ CatchUpload(r, ev, FolderError(out, name))
                /\ UNCHANGED <<folders, nextId>>
           ELSE /\ folders' = folders \cup {Folder(id, name, parents, "true", FALSE)}
                /\ nextId' = [nextId EXCEPT !.folder = @ + 1]
                /\ Suspend(r, ev, "folder.permission", [loc[r] EXCEPT !.folderId = id])
  /\ UNCHANGED <<config, files, perms, assets, clock, kind, reqFile, fileIdParam>>

(* Drive: getOrCreateFolder makes the folder readable by anyone *)
PermitFolder(r) ==
  /\ pc[r] = "folder.permission"
  /\ \E out \in FolderOutcomes :
       LET id == loc[r].folderId
           ev == <<Ev("permissions.create", id, out = OK, NULL)>>
       IN  IF out # OK
           THEN /\ CatchUpload(r, ev, FolderError(out, loc[r].folderName))
                /\ UNCHANGED perms
           ELSE /\ perms' = perms \cup {id}
                /\ FolderResolved(r, ev, id)
  /\ UNCHANGED <<config, folders, files, nextId, assets, clock, kind, reqFile,
                 fileIdParam>>

(* Drive: the photo is created under the photos folder *)
CreateFile(r) ==
  /\ pc[r] = "file.create"
  /\ \E out \in Outcomes :
       LET id == DriveId("file", nextId.file + 1)
           ev == <<Ev("files.create", <<PHOTO_MIME>> \o loc[r].photosFolderId,
                      out = OK, IF out = OK THEN id ELSE NULL)>>
       IN  IF out # OK
           THEN /\ CatchUpload(r, ev, out)
                /\ UNCHANGED <<files, nextId>>
           ELSE /\ files' = files \cup
                      {[id |-> id, parents |-> <<loc[r].photosFolderId>>, owner |-> r]}
                /\ nextId' = [nextId EXCEPT !.file = @ + 1]
                /\ Suspend(r, ev, "file.permission", [loc[r] EXCEPT !.fileId = id])
  /\ UNCHANGED <<config, folders, perms, assets, clock, kind, reqFile, fileIdParam>>

(* The permission step with a compensating action: when the grant fails,
   the photo that was created is deleted again before the 500. *)
PermitFile_rollback(r) ==
  /\ pc[r] = "file.permission"
  /\ \E out \in Outcomes :
       LET id == loc[r].fileId
           ev == <<Ev("permissions.create", id, out = OK, NULL)>>
       IN  IF out # OK
           THEN /\ CatchUpload(r, ev \o <<Ev("files.delete", id, TRUE, NULL)>>, out)
                /\ files' = {f \in files : f.id # id}
                /\ UNCHANGED perms
           ELSE /\ perms' = perms \cup {id}
                /\ files' = files
                /\ FinishUpload(r, ev, ImageUrl(id), id)
  /\ UNCHANGED <<config, folders, nextId, assets, clock, kind, reqFile,
                 fileIdParam>>

(* Drive: the photo is made readable by anyone, and the upload answers *)
PermitFile(r) ==
  /\ pc[r] = "file.permission"
  /\ \E out \in Outcomes :
       LET id == loc[r].fileId
           gone == \A f \in files : f.id # id
           err == IF out # OK THEN out ELSE IF gone THEN NotFound(id) ELSE OK
           ev == <<Ev("permissions.create", id, err = OK, NULL)>>
       IN  IF err # OK
           THEN /\ CatchUpload(r, ev, err)
                /\ UNCHANGED perms
           ELSE /\ perms' = perms \cup {id}
                /\ FinishUpload(r, ev, ImageUrl(id), id)
  /\ UNCHANGED <<config, folders, files, nextId, assets, clock, kind, reqFile,
                 fileIdParam>>

(* Drive: DELETE is forwarded (drive.files.delete) and answers *)
DeleteFile(r) ==
  /\ pc[r] = "file.delete"
  /\ \E out \in Outcomes :
       LET id == fileIdParam[r]
           hit == {f \in files : f.id = id}
           err == IF out # OK THEN out ELSE IF hit = {} THEN NotFound(id) ELSE OK
           ev == <<Ev("files.delete", id, err = OK, NULL)>>
       IN  IF err # OK
           THEN /\ CatchDelete(r, ev, err)
                /\ UNCHANGED <<files, perms>>
           ELSE /\ files' = files \ hit
                /\ perms' = perms \ {id}
                /\ FinishDelete(r, ev)
  /\ UNCHANGED <<config, folders, nextId, assets, clock, kind, reqFile, fileIdParam>>

-----------------------------------------------------------------------------
(* Cloudinary: the photo is uploaded, and the upload answers.  With          *)
(* overwrite: false an upload to a public id that is taken stores nothing    *)
(* and is answered with the asset that is there.                             *)

CloudinaryUpload(r) ==
  /\ pc[r] = "upload"
  /\ \E out \in Outcomes :
       LET id == AssetId(CLOUD_FOLDER, loc[r].publicId)
           taken == \E a \in assets : a.id = id
           ev == <<Ev("uploader.upload", id, out = OK, IF out = OK THEN id ELSE NULL)>>
       IN  IF out # OK
           THEN /\ CatchUpload(r, ev, out)
                /\ UNCHANGED assets
           ELSE /\ assets' = IF taken THEN assets
                             ELSE assets \cup {[id |-> id, owner |-> r]}
                /\ FinishUpload(r, ev, SecureUrl(id), id)
  /\ UNCHANGED <<config, folders, files, perms, nextId, clock, kind, reqFile,
                 fileIdParam>>

(* Cloudinary: DELETE is forwarded (uploader.destroy) and answers.  destroy  *)
(* resolves with {result: "not found"} for an id it does not hold; the       *)
(* handler does not read the result.                                         *)
CloudinaryDestroy(r) ==
  /\ pc[r] = "destroy"
  /\ \E out \in Outcomes :
       LET id == fileIdParam[r]
           hit == {a \in assets : a.id = id}
           ev == <<Ev("uploader.destroy", id, out = OK, NULL)>>
       IN  IF out # OK
           THEN /\ CatchDelete(r, ev, out)
                /\ UNCHANGED assets
           ELSE /\ assets' = assets \ hit
                /\ FinishDelete(r, ev)
  /\ UNCHANGED <<config, folders, files, perms, nextId, clock, kind, reqFile,
                 fileIdParam>>

-----------------------------------------------------------------------------

Next ==
  \/ Tick
  \/ \E r \in Requests :
       \/ UploadPhoto(r)
       \/ DeletePhoto(r)
       \/ FolderCheck(r)
       \/ ListFolder(r)
       \/ CreateFolder(r)
       \/ PermitFolder(r)
       \/ CreateFile(r)
       \/ PermitFile(r)
       \/ DeleteFile(r)
       \/ CloudinaryUpload(r)
       \/ CloudinaryDestroy(r)

Spec == Init /\ [][Next]_vars

-----------------------------------------------------------------------------
(* Properties *)

IsBackendCall(e) == e.op \notin {"fs.unlinkSync", "res.json"}
\* The backend calls request r made, in order.
Calls(r) == SelectSeq(trace[r], IsBackendCall)
\* Where in s the events of operation op stand.
Positions(s, op) == {i \in DOMAIN s : s[i].op = op}
Answered(r) == resp[r] # <<>>
Answer(r) == resp[r][1]
IsUpload(r) == kind[r] = "upload"
IsDelete(r) == kind[r] = "delete"

C2_NoFileNoBackendCall ==
  \A r \in Requests :
    (IsUpload(r) /\ ~reqFile[r]) =>
      /\ pc[r] = "done"
      /\ resp[r] = <<Failure(400, <<"No file uploaded">>)>>
      /\ Answer(r).success = FALSE /\ Answer(r).error # NULL
      /\ Calls(r) = <<>>

\* An upload without a file has been answered while another request has
\* made a backend call.
C2_Witness ==
  \E r, q \in Requests :
    /\ IsUpload(r) /\ ~reqFile[r] /\ Answered(r) /\ Answer(r).status = 400
    /\ Calls(q) # <<>>

\* The configured folder is there and reports canAddChildren: false.
ConfiguredFolderDeniesWrite ==
  /\ variant = "drive"
  /\ PHOTOS_FOLDER_ID # NULL
  /\ \E f \in folders : f.id = PHOTOS_FOLDER_ID /\ f.canAddChildren = "false"

\* C3: Drive with a configured folder that denies write: an upload with a
\* file makes neither a files.create nor a permissions.create call, and
\* is answered 500 {success: false, error} with a message naming "Editor".
C3_WriteDeniedNoFileCreation ==
  ConfiguredFolderDeniesWrite =>
    \A r \in Requests :
      (IsUpload(r) /\ reqFile[r]) =>
        /\ Positions(trace[r], "files.create") = {}
        /\ Positions(trace[r], "permissions.create") = {}
        /\ Answered(r) =>
             /\ Answer(r).status = 500
             /\ Answer(r).success = FALSE
             /\ Includes(Answer(r).error, "Editor")

\* The folder check of an upload resolved, found write denied, and the
\* upload has been answered.
C3_Witness ==
  /\ ConfiguredFolderDeniesWrite
  /\ \E r \in Requests :
       /\ IsUpload(r) /\ reqFile[r] /\ Answered(r)
       /\ \E i \in Positions(trace[r], "files.get") : trace[r][i].ok
       /\ Includes(Answer(r).error, "Editor")

\* The backend holds something under id.
Stored(id) == (\E f \in files : f.id = id) \/ (\E a \in assets : a.id = id)
SucceededUpload(u) == IsUpload(u) /\ Answered(u) /\ Answer(u).status = 200
\* Call c stored a photo: a files.create that is not a folder's, or an
\* uploader.upload.
IsStoreCall(c) ==
  \/ c.op = "files.create" /\ c.arg[1] # FOLDER_MIME
  \/ c.op = "uploader.upload"
AwaitsDelete(d) == pc[d] \in {"file.delete", "destroy"}

\* The fileId of every 200 upload answer is the id in the result of the
\* store call that upload made.
C4_FileIdIsStoredId ==
  \A u \in Requests :
    SucceededUpload(u) =>
      /\ Answer(u).fileId # NULL
      /\ \E i \in DOMAIN Calls(u) :
           /\ IsStoreCall(Calls(u)[i])
           /\ Calls(u)[i].ok
           /\ Calls(u)[i].result = Answer(u).fileId

\* A DELETE naming the fileId of an earlier 200 upload answer, while the
\* backend still holds it, makes exactly one backend call, the delete of
\* that id; when the backend carries it out the answer is {success: true}
\* and that entry and no other is gone; the only other outcome is that the
\* backend rejected the call itself, answered 500 with nothing removed.
C4_DeleteStep ==
  \A d \in Requests :
    ( /\ AwaitsDelete(d) /\ pc'[d] = "done"
      /\ Stored(fileIdParam[d])
      /\ \E u \in Requests : SucceededUpload(u) /\ Answer(u).fileId = fileIdParam[d] )
    =>
      LET id == fileIdParam[d]
          calls == Calls(d)'
      IN  /\ Len(calls) = 1
          /\ calls[1].op \in {"files.delete", "uploader.destroy"}
          /\ calls[1].arg = id
          /\ IF calls[1].ok
             THEN /\ resp'[d] = <<Success(NULL, NULL)>>
                  /\ files' = {f \in files : f.id # id}
                  /\ assets' = {a \in assets : a.id # id}
                  /\ ~Stored(id)'
             ELSE /\ resp'[d][1].status = 500
                  /\ resp'[d][1].error \in Faults
                  /\ UNCHANGED <<files, assets>>

\* The step that answers an upload with 200 leaves the photo of that
\* upload in the backend under the fileId it returns.
C4_AnswerNamesOwnPhoto ==
  \A u \in Requests :
    (~SucceededUpload(u) /\ SucceededUpload(u)') =>
      \/ \E f \in files' : f.id = resp'[u][1].fileId /\ f.owner = u
      \/ \E a \in assets' : a.id = resp'[u][1].fileId /\ a.owner = u

\* C4: in both programs the fileId of a successful upload is the id the
\* backend stored the photo of that upload under, and a later DELETE with
\* that fileId, the photo not yet deleted, is forwarded as the backend
\* delete of that same id and answered {success: true} (500 only when the
\* backend rejects the call itself).
C4_UploadedIdIsDeletable ==
  [][C4_FileIdIsStoredId' /\ C4_AnswerNamesOwnPhoto /\ C4_DeleteStep]_vars

\* C5: in both programs a DELETE naming a fileId the backend does not
\* hold (never uploaded, or already deleted) is answered 500
\* {success: false, error}, never {success: true}.
C5_UnknownIdDeleteFails ==
  [][\A d \in Requests :
       (AwaitsDelete(d) /\ pc'[d] = "done" /\ ~Stored(fileIdParam[d])) =>
         /\ resp'[d][1].status = 500
         /\ resp'[d][1].success = FALSE
         /\ resp'[d][1].error # NULL]_vars

\* Call c belongs to folder search-or-create: the search, a folder's
\* creation, or the permission put on a folder.
IsFolderSearchOrCreate(c) ==
  \/ c.op = "files.list"
  \/ c.op = "files.create" /\ c.arg[1] = FOLDER_MIME
  \/ c.op = "permissions.create" /\ c.arg[1] = "folder"

\* Request r searched the folder (name, parent), found nothing, and
\* created it as folder id.
SearchedThenCreated(r, name, parentId, id) ==
  \E i, j \in DOMAIN Calls(r) :
    /\ i < j
    /\ Calls(r)[i].op = "files.list" /\ Calls(r)[i].ok
    /\ Calls(r)[i].arg = <<name>> \o parentId
    /\ Calls(r)[j].op = "files.create" /\ Calls(r)[j].ok
    /\ Calls(r)[j].arg = <<FOLDER_MIME, name>> \o parentId
    /\ Calls(r)[j].result = id

\* C6: with a configured folder id no upload ever searches or creates a
\* folder.  (Without one the search-or-create is not atomic: the state of
\* C6_Witness, two uploads that both found nothing and both created the
\* folder, is reachable.)
C6_ConfiguredNeverSearchesOrCreates ==
  (variant = "drive" /\ PHOTOS_FOLDER_ID # NULL) =>
    /\ \A r \in Requests : \A i \in DOMAIN trace[r] :
         ~IsFolderSearchOrCreate(trace[r][i])
    /\ \A f \in folders : f.id = PHOTOS_FOLDER_ID

\* No folder id configured: two uploads each searched the same (name,
\* parent), each found nothing, each created the folder, and the backend
\* holds two folders of that name and parent, neither trashed.
C6_Witness ==
  /\ variant = "drive" /\ PHOTOS_FOLDER_ID = NULL
  /\ \E r, q \in Requests : \E f, g \in folders :
       /\ r # q /\ f.id # g.id
       /\ f.name = g.name /\ f.parents = g.parents
       /\ ~f.trashed /\ ~g.trashed
       /\ LET parentId == IF f.parents = <<>> THEN NULL ELSE f.parents[1]
          IN  /\ SearchedThenCreated(r, f.name, parentId, f.id)
              /\ SearchedThenCreated(q, g.name, parentId, g.id)

\* Request r created photo id and the permission grant on it then failed.
PermissionFailedAfterCreate(r, id) ==
  \E i, j \in DOMAIN trace[r] :
    /\ i < j
    /\ IsStoreCall(trace[r][i]) /\ trace[r][i].ok /\ trace[r][i].result = id
    /\ trace[r][j].op = "permissions.create" /\ trace[r][j].arg = id
    /\ ~trace[r][j].ok

\* Some DELETE request other than r had the backend delete id.
DeletedByAnother(r, id) ==
  \E d \in Requests \ {r} :
    /\ IsDelete(d) /\ fileIdParam[d] = id
    /\ \E i \in DOMAIN trace[d] :
         trace[d][i].op = "files.delete" /\ trace[d][i].ok

\* C7: Drive: when the permission grant fails after the photo was created,
\* the upload is answered 500 {success: false, error} without a fileId,
\* it makes no delete call, and the photo stays in the backend (until a
\* DELETE request that names its id removes it).
C7_NoRollbackAfterPermissionFailure ==
  variant = "drive" =>
    \A r \in Requests :
      (loc[r].fileId # NULL /\ PermissionFailedAfterCreate(r, loc[r].fileId)) =>
        /\ pc[r] = "done"
        /\ Len(resp[r]) = 1
        /\ Answer(r).status = 500
        /\ Answer(r).success = FALSE
        /\ Answer(r).error # NULL
        /\ Answer(r).fileId = NULL
        /\ \A i \in DOMAIN trace[r] : trace[r][i].op # "files.delete"
        /\ Stored(loc[r].fileId) \/ DeletedByAnother(r, loc[r].fileId)

\* The permission grant of an upload failed after its photo was created,
\* the upload was answered, and the photo is in the backend.
C7_Witness ==
  /\ variant = "drive"
  /\ \E r \in Requests :
       /\ loc[r].fileId # NULL
       /\ PermissionFailedAfterCreate(r, loc[r].fileId)
       /\ Answered(r)
       /\ Stored(loc[r].fileId)

\* C8: in every request a backend call that failed is the last backend
\* call of that request (it is not made again and none follows it); the
\* request is answered exactly once, and after a failed call that answer
\* is 500 with success: false and a message.
C8_FailedCallEndsRequest ==
  \A r \in Requests :
    LET t == trace[r]
        n == Len(t)
        failed == {i \in DOMAIN t : IsBackendCall(t[i]) /\ ~t[i].ok}
    IN  /\ \A i \in failed : \A j \in (i + 1)..n : ~IsBackendCall(t[j])
        /\ Len(resp[r]) <= 1
        /\ \A i \in DOMAIN t : t[i].op = "res.json" => i = n
        /\ (pc[r] = "done") <=> (Len(resp[r]) = 1)
        /\ Len(resp[r]) = 1 => t[n].op = "res.json"
        /\ failed # {} =>
             /\ pc[r] = "done"
             /\ Len(resp[r]) = 1
             /\ Answer(r).status = 500
             /\ Answer(r).success = FALSE
             /\ Answer(r).error # NULL
             /\ t[n] = Responded(500)

\* An upload whose third or later backend call failed and a delete whose
\* backend call failed have both been answered.
C8_Witness ==
  \E r, d \in Requests :
    /\ IsUpload(r) /\ Len(Calls(r)) >= 3 /\ ~Calls(r)[Len(Calls(r))].ok
    /\ IsDelete(d) /\ Calls(d) # <<>> /\ ~Calls(d)[1].ok
    /\ Answered(r) /\ Answered(d)

\* C9: Cloudinary: any two uploads, also two in flight together that read
\* the same clock value, are given different public ids, and two
\* successful uploads never return the same fileId.
C9_DistinctPublicIds ==
  variant = "cloudinary" =>
    \A r, q \in Requests :
      (r # q /\ IsUpload(r) /\ IsUpload(q) /\ reqFile[r] /\ reqFile[q]) =>
        /\ loc[r].publicId # loc[q].publicId
        /\ (SucceededUpload(r) /\ SucceededUpload(q)) =>
             Answer(r).fileId # Answer(q).fileId

\* The place of an event in the order of the Drive upload handler.
Phase(e) ==
  IF e.op \in {"files.get", "files.list"} \/ IsFolderSearchOrCreate(e) THEN 1
  ELSE IF e.op = "files.create" THEN 2
  ELSE IF e.op = "permissions.create" THEN 3
  ELSE IF e.op = "fs.unlinkSync" THEN 4
  ELSE 5

\* C10: Drive: within one upload the events come in the order folder
\* resolution, file creation, permission grant on that file, removal of
\* the staged file, answer; every 200 answer comes right after a file
\* creation and a permission grant that both succeeded for the fileId it
\* returns, and its url is the direct-content URL of that fileId.
C10_UploadOrder ==
  variant = "drive" =>
    \A r \in Requests :
      IsUpload(r) =>
        LET t == trace[r]
            n == Len(t)
        IN  /\ \A i \in 1..(n - 1) :
                 /\ Phase(t[i]) <= Phase(t[i + 1])
                 /\ Phase(t[i]) >= 2 => Phase(t[i]) < Phase(t[i + 1])
            /\ SucceededUpload(r) =>
                 /\ n >= 5
                 /\ \A i \in 1..(n - 4) : Phase(t[i]) = 1 /\ t[i].ok
                 /\ t[n - 3].op = "files.create" /\ t[n - 3].ok
                 /\ t[n - 3].arg = <<PHOTO_MIME>> \o loc[r].photosFolderId
                 /\ t[n - 3].result = Answer(r).fileId
                 /\ t[n - 2] = Ev("permissions.create", Answer(r).fileId, TRUE, NULL)
                 /\ t[n - 1] = Ev("fs.unlinkSync", <<r>>, TRUE, NULL)
                 /\ t[n] = Responded(200)
                 /\ Answer(r).fileId # NULL
                 /\ Answer(r).url =
                      <<"https://drive.google.com/uc?id=">> \o Answer(r).fileId

\* Drive, no folder configured: an upload that had to create both folders
\* has been answered 200.
C10_Witness ==
  /\ variant = "drive"
  /\ \E r \in Requests :
       /\ SucceededUpload(r)
       /\ Len(trace[r]) >= 10

=============================================================================
